---------------------------- MODULE Spec2Model ----------------------------
(***************************************************************************)
(* MazeScreen.py: maze generation by randomized recursive backtracking,    *)
(* the colour pass over the wall cells, the per-frame camera update, the   *)
(* DDA ray cast of the renderer and the frame loop that draws and presents *)
(* the columns.                                                            *)
(***************************************************************************)
EXTENDS Integers, Sequences, FiniteSets, TLC

(* Largest width and height generate_maze is called with. *)
MaxDim == 9

(* Largest width and height of a grid the colour pass is followed on. *)
MaxColorDim == 5

(* random.choice's successive results in the colour pass repeat with this  *)
(* period.                                                                 *)
TapeLen == 2

(* Largest width and height of a grid the frame loop is followed on. *)
MaxCamDim == 5

(* The number of frames the loop is followed for. *)
MaxFrames == 2

(* Largest width and height of a grid a ray is cast in. *)
MaxRayDim == 3

VARIABLES
    width,      \* generate_maze's width argument
    height,     \* generate_maze's height argument
    maze,       \* maze[y][x]: 0 corridor, non-zero wall
    stack,      \* the backtracking stack of <<x, y>> cells
    pc,         \* "call", "loop", "done" (returned), "error" (IndexError raised),
                \* "color" (in the colour pass), "colored" (the pass is over),
                \* "frame" (a frame's camera update), "cast", "dda", "drawn"
                \* (one column's ray), "sample", "fill", "column" (the frame
                \* loop with its rendering), "exit" (the loop is left)
    cx,         \* the colour pass's x
    cy,         \* the colour pass's y
    tape,       \* what random.choice returns in the colour pass, call after call
    calls,      \* the number of random.choice calls of the colour pass so far
    posX,       \* the camera: position, direction and camera plane, each
    posY,       \* coordinate a rational <<numerator, denominator>>
    dirX,
    dirY,
    planeX,
    planeY,
    running,    \* main's running flag
    frame,      \* the number of frames done
    ray,        \* the locals of one pass of the column loop, lines 125-198
    keys,       \* the keys held, as line 84 sampled them
    column,     \* the column loop's x, line 125
    screen      \* the display surface: what is drawn on it and what is shown

colorVars == <<cx, cy, tape, calls>>

camVars == <<posX, posY, dirX, dirY, planeX, planeY, running, frame, keys>>

drawVars == <<column, screen>>

vars == <<width, height, maze, stack, pc, cx, cy, tape, calls,
          posX, posY, dirX, dirY, planeX, planeY, running, frame, ray, keys,
          column, screen>>

(***************************************************************************)
(* Python lists: an index i of a list of length n is valid when            *)
(* -n <= i < n, a negative one counting from the end.  The grid is a       *)
(* function over 0..height-1 of functions over 0..width-1.                 *)
(***************************************************************************)
PyValid(i, n) == -n <= i /\ i < n

PyIdx(i, n) == IF i < 0 THEN i + n ELSE i

Cell(m, w, h, x, y) == m[PyIdx(y, h)][PyIdx(x, w)]

SetCell(m, w, h, x, y, v) ==
    [m EXCEPT ![PyIdx(y, h)] = [@ EXCEPT ![PyIdx(x, w)] = v]]

Cells(w, h) == (0 .. w - 1) \X (0 .. h - 1)

Abs(n) == IF n < 0 THEN -n ELSE n

(* Python's floor division by 2. *)
FloorDiv2(n) == n \div 2

(***************************************************************************)
(* generate_maze                                                           *)
(***************************************************************************)
RECURSIVE Repeat(_, _)
(* Python's [v for _ in range(n)]: the list v, ..., v, indexed from 0. *)
Repeat(v, n) == IF n = 0 THEN <<>> ELSE Repeat(v, n - 1) @@ ((n - 1) :> v)

(* Line 14 with 0 in place of 1. *)
AllCorridors(w, h) == Repeat(Repeat(0, w), h)

(* Line 14. *)
AllWalls(w, h) == Repeat(Repeat(1, w), h)

Deltas == {<<2, 0>>, <<-2, 0>>, <<0, 2>>, <<0, -2>>}

(* Neighbors without the lower bound on nx: -1 is a valid Python index. *)
NeighborsNoLowerBound(m, w, h, x, y) ==
    {n \in {<<x + d[1], y + d[2]>> : d \in Deltas} :
        /\ n[1] < w - 1
        /\ 0 < n[2] /\ n[2] < h - 1
        /\ Cell(m, w, h, n[1], n[2]) = 1}

(* Lines 20-24: the cells two away from (x, y), strictly inside the border, *)
(* that are still 1.                                                        *)
Neighbors(m, w, h, x, y) ==
    {n \in {<<x + d[1], y + d[2]>> : d \in Deltas} :
        /\ 0 < n[1] /\ n[1] < w - 1
        /\ 0 < n[2] /\ n[2] < h - 1
        /\ Cell(m, w, h, n[1], n[2]) = 1}

(* Carved without line 29: the wall between the two cells stays. *)
CarvedKeepWall(m, w, h, x, y, nx, ny) == SetCell(m, w, h, nx, ny, 0)

(* Lines 27-29 clearing the corner cell (0, 0) too. *)
CarvedAndCorner(m, w, h, x, y, nx, ny) ==
    SetCell(SetCell(SetCell(m, w, h, nx, ny, 0),
                    w, h, x + FloorDiv2(nx - x), y + FloorDiv2(ny - y), 0),
            w, h, 0, 0, 0)

(* Lines 27-29: the neighbour and the cell between it and (x, y) become 0. *)
Carved(m, w, h, x, y, nx, ny) ==
    SetCell(SetCell(m, w, h, nx, ny, 0),
            w, h, x + FloorDiv2(nx - x), y + FloorDiv2(ny - y), 0)

Top(stk) == stk[Len(stk)]

(* Popped that leaves the stack as it is. *)
PoppedNothing(stk) == stk

Popped(stk) == SubSeq(stk, 1, Len(stk) - 1)

(* Line 51. *)
ScreenWidth == 640

(* The columns x of line 125 that are followed. *)
SampleColumns == {0, 320, 480}

(* The surface of line 53 before anything is drawn: each column has a      *)
(* background colour and at most one line <<drawStart, drawEnd, colour>>.  *)
NoScreen ==
    LET blank == [x \in SampleColumns |-> [bg |-> <<0, 0, 0>>, line |-> <<>>]]
    IN  [canvas |-> blank, shown |-> blank]

(* The column loop's locals before the first column. *)
NoRay ==
    [x |-> 0, rayDirX |-> <<0, 1>>, rayDirY |-> <<0, 1>>, mapX |-> 0, mapY |-> 0,
     deltaDistX |-> <<0, 1>>, deltaDistY |-> <<0, 1>>, stepX |-> 0, stepY |-> 0,
     sideDistX |-> <<0, 1>>, sideDistY |-> <<0, 1>>, hit |-> FALSE, side |-> -1,
     perpWallDist |-> <<0, 1>>, lineHeight |-> 0, drawStart |-> 0, drawEnd |-> 0,
     wall_color |-> <<0, 0, 0>>]

(* generate_maze is called with dimensions in D; the colour pass will draw  *)
(* one of the tapes T.                                                      *)
InitGen(D, T) ==
    /\ width \in D
    /\ height \in D
    /\ maze = <<>>
    /\ stack = <<>>
    /\ pc = "call"
    /\ cx = 0
    /\ cy = 0
    /\ tape \in T
    /\ calls = 0
    /\ posX = <<0, 1>> /\ posY = <<0, 1>>
    /\ dirX = <<0, 1>> /\ dirY = <<0, 1>>
    /\ planeX = <<0, 1>> /\ planeY = <<0, 1>>
    /\ running = FALSE
    /\ frame = 0
    /\ ray = NoRay
    /\ keys = {}
    /\ column = 0
    /\ screen = NoScreen

Init == InitGen(1 .. MaxDim, {<<>>})

(* Lines 14-17.  maze[1][1] raises IndexError when there is no row 1 or no  *)
(* column 1.                                                                *)
GenStart ==
    /\ pc = "call"
    /\ IF PyValid(1, height) /\ PyValid(1, width)
       THEN /\ maze' = SetCell(AllWalls(width, height), width, height, 1, 1, 0)
            /\ stack' = <<<<1, 1>>>>
            /\ pc' = "loop"
       ELSE /\ maze' = AllWalls(width, height)
            /\ stack' = <<>>
            /\ pc' = "error"
    /\ UNCHANGED <<width, height, colorVars, camVars, ray, drawVars>>

(* Lines 18-30, the branch with a neighbour to carve to. *)
GenCarve ==
    /\ pc = "loop"
    /\ stack # <<>>
    /\ LET x == Top(stack)[1]
           y == Top(stack)[2]
       IN  \E n \in Neighbors(maze, width, height, x, y) :
               /\ maze' = Carved(maze, width, height, x, y, n[1], n[2])
               /\ stack' = Append(stack, n)
    /\ UNCHANGED <<width, height, pc, colorVars, camVars, ray, drawVars>>

(* Lines 18-25 and 31-32, the dead end. *)
GenPop ==
    /\ pc = "loop"
    /\ stack # <<>>
    /\ Neighbors(maze, width, height, Top(stack)[1], Top(stack)[2]) = {}
    /\ stack' = Popped(stack)
    /\ UNCHANGED <<width, height, maze, pc, colorVars, camVars, ray, drawVars>>

(* Lines 18 and 33: the stack is empty, the grid is returned. *)
GenReturn ==
    /\ pc = "loop"
    /\ stack = <<>>
    /\ pc' = "done"
    /\ UNCHANGED <<width, height, maze, stack, colorVars, camVars, ray, drawVars>>

Next == GenStart \/ GenCarve \/ GenPop \/ GenReturn

Spec == Init /\ [][Next]_vars

(***************************************************************************)
(* main: the colour pass over the grid generate_maze returned              *)
(***************************************************************************)
(* random.choice([0, 1, 2, 3]) in place of line 65's list. *)
WallChoicesFromZero == 0 .. 3

(* Line 65: the list random.choice draws from. *)
WallChoices == {1, 2, 3, 4}

(* The results of random.choice over the list: every tape of TapeLen draws. *)
Tapes == [1 .. TapeLen -> WallChoices]

(* The result of random.choice call number k + 1. *)
Draw(t, k) == t[(k % Len(t)) + 1]

InitColor == InitGen(1 .. MaxColorDim, Tapes)

(* Lines 59-62: generate_maze has returned, the pass starts at y = 0. *)
ColorStart ==
    /\ pc = "done"
    /\ pc' = "color"
    /\ cx' = 0
    /\ cy' = 0
    /\ UNCHANGED <<width, height, maze, stack, tape, calls, camVars, ray, drawVars>>

(* range(maze_width) is exhausted: the next y, at x = 0. *)
NextCx == IF cx + 1 < width THEN cx + 1 ELSE 0

NextCy == IF cx + 1 < width THEN cy ELSE cy + 1

(* Lines 63-65 at a cell that is not 0: it gets the index drawn. *)
ColorWall ==
    /\ pc = "color"
    /\ cy < height
    /\ maze[cy][cx] # 0
    /\ maze' = [maze EXCEPT ![cy] = [@ EXCEPT ![cx] = Draw(tape, calls)]]
    /\ calls' = calls + 1
    /\ cx' = NextCx
    /\ cy' = NextCy
    /\ UNCHANGED <<width, height, stack, pc, tape, camVars, ray, drawVars>>

(* Lines 63-64 at a cell that is 0: it is left alone. *)
ColorSkip ==
    /\ pc = "color"
    /\ cy < height
    /\ maze[cy][cx] = 0
    /\ cx' = NextCx
    /\ cy' = NextCy
    /\ UNCHANGED <<width, height, maze, stack, pc, tape, calls, camVars, ray, drawVars>>

(* Line 62: range(maze_height) is exhausted. *)
ColorEnd ==
    /\ pc = "color"
    /\ cy >= height
    /\ pc' = "colored"
    /\ UNCHANGED <<width, height, maze, stack, cx, cy, tape, calls, camVars, ray, drawVars>>

ColorNext == ColorStart \/ ColorWall \/ ColorSkip \/ ColorEnd

NextColor == Next \/ ColorNext

SpecColor == InitColor /\ [][NextColor]_vars

(***************************************************************************)
(* Numbers.  The camera's floats are modelled by exact rationals           *)
(* <<numerator, denominator>> in lowest terms with a positive denominator. *)
(***************************************************************************)
GCD[a \in Nat, b \in Nat] == IF b = 0 THEN a ELSE GCD[b, a % b]

Rat(n, d) ==
    LET g == GCD[Abs(n), Abs(d)]
        s == IF d < 0 THEN -1 ELSE 1
    IN  <<(s * n) \div g, (s * d) \div g>>

RAdd(a, b) ==
    LET g == GCD[a[2], b[2]]
    IN  Rat(a[1] * (b[2] \div g) + b[1] * (a[2] \div g), (a[2] \div g) * b[2])

RNeg(a) == <<-a[1], a[2]>>

RSub(a, b) == RAdd(a, RNeg(b))

RMul(a, b) ==
    LET p == Rat(a[1], b[2])
        q == Rat(b[1], a[2])
    IN  <<p[1] * q[1], p[2] * q[2]>>

RFloor(a) == a[1] \div a[2]

(* a < b, comparing the integer parts first. *)
RLt(a, b) ==
    IF RFloor(a) # RFloor(b)
    THEN RFloor(a) < RFloor(b)
    ELSE (a[1] - RFloor(a) * a[2]) * b[2] < (b[1] - RFloor(b) * b[2]) * a[2]

(* Python's int() of a float: truncation toward zero. *)
RInt(a) == IF a[1] >= 0 THEN a[1] \div a[2] ELSE -((-a[1]) \div a[2])

FromInt(n) == <<n, 1>>

(***************************************************************************)
(* main: the camera and its update, lines 67-118                           *)
(***************************************************************************)
(* Line 73. *)
MoveSpeed == <<1, 20>>

(* math.cos(rot_speed) and math.sin(rot_speed) of lines 105-109: a point   *)
(* of the unit circle, here the rational point (4/5, 3/5).                 *)
CosRot == <<4, 5>>

SinRot == <<3, 5>>

(* Lines 69-71. *)
StartDir == [x |-> <<1, 1>>, y |-> <<0, 1>>]

StartPlane == [x |-> <<0, 1>>, y |-> <<33, 50>>]

(* The keys of lines 86, 94, 102 and 111. *)
Keys == {"e", "d", "f", "s"}

Cam ==
    [posX |-> posX, posY |-> posY, dirX |-> dirX, dirY |-> dirY,
     planeX |-> planeX, planeY |-> planeY]

(* The Y test of lines 91-92 made with the X of before line 90. *)
TranslatedStaleX(c, m, w, h, newX, newY) ==
    LET okX == Cell(m, w, h, RInt(newX), RInt(c.posY)) = 0
        okY == Cell(m, w, h, RInt(c.posX), RInt(newY)) = 0
    IN  [c EXCEPT !.posX = IF okX THEN newX ELSE c.posX,
                  !.posY = IF okY THEN newY ELSE c.posY]

(* Lines 89-92 with the two tests joined: the camera moves only if both    *)
(* cells are 0.                                                            *)
TranslatedBothOrNeither(c, m, w, h, newX, newY) ==
    IF /\ Cell(m, w, h, RInt(newX), RInt(c.posY)) = 0
       /\ Cell(m, w, h, RInt(newX), RInt(newY)) = 0
    THEN [c EXCEPT !.posX = newX, !.posY = newY]
    ELSE c

(* Lines 89-92 and 97-100: X moves if the cell at (new X, old Y) is 0,     *)
(* then Y moves if the cell at (X as it now is, new Y) is 0.               *)
Translated(c, m, w, h, newX, newY) ==
    LET x1 == IF Cell(m, w, h, RInt(newX), RInt(c.posY)) = 0
              THEN newX ELSE c.posX
        y1 == IF Cell(m, w, h, RInt(x1), RInt(newY)) = 0
              THEN newY ELSE c.posY
    IN  [c EXCEPT !.posX = x1, !.posY = y1]

(* Lines 87-92. *)
Forward(c, m, w, h) ==
    Translated(c, m, w, h, RAdd(c.posX, RMul(c.dirX, MoveSpeed)),
                           RAdd(c.posY, RMul(c.dirY, MoveSpeed)))

(* Lines 95-100. *)
Backward(c, m, w, h) ==
    Translated(c, m, w, h, RSub(c.posX, RMul(c.dirX, MoveSpeed)),
                           RSub(c.posY, RMul(c.dirY, MoveSpeed)))

(* Lines 104-109 without oldDirX and oldPlaneX: the Y lines read the X      *)
(* already rotated.                                                         *)
RotatedInPlace(c, cosA, sinA) ==
    LET dx == RSub(RMul(c.dirX, cosA), RMul(c.dirY, sinA))
        px == RSub(RMul(c.planeX, cosA), RMul(c.planeY, sinA))
    IN  [c EXCEPT !.dirX = dx,
                  !.dirY = RAdd(RMul(dx, sinA), RMul(c.dirY, cosA)),
                  !.planeX = px,
                  !.planeY = RAdd(RMul(px, sinA), RMul(c.planeY, cosA))]

(* Lines 104-109 and 113-118: dir and plane turned by the same matrix. *)
Rotated(c, cosA, sinA) ==
    [c EXCEPT !.dirX = RSub(RMul(c.dirX, cosA), RMul(c.dirY, sinA)),
              !.dirY = RAdd(RMul(c.dirX, sinA), RMul(c.dirY, cosA)),
              !.planeX = RSub(RMul(c.planeX, cosA), RMul(c.planeY, sinA)),
              !.planeY = RAdd(RMul(c.planeX, sinA), RMul(c.planeY, cosA))]

(* Lines 102-109: angle = rot_speed. *)
RotateLeft(c) == Rotated(c, CosRot, SinRot)

(* Lines 111-118: angle = -rot_speed. *)
RotateRight(c) == Rotated(c, CosRot, RNeg(SinRot))

(* The four blocks of lines 86-118 with the rotations done first. *)
UpdateCameraRotateFirst(c, m, w, h, ks) ==
    LET c1 == IF "f" \in ks THEN RotateLeft(c) ELSE c
        c2 == IF "s" \in ks THEN RotateRight(c1) ELSE c1
        c3 == IF "e" \in ks THEN Forward(c2, m, w, h) ELSE c2
    IN  IF "d" \in ks THEN Backward(c3, m, w, h) ELSE c3

(* The four blocks of lines 86-118 with the backward block after the       *)
(* rotations.                                                              *)
UpdateCameraBackwardLast(c, m, w, h, ks) ==
    LET c1 == IF "e" \in ks THEN Forward(c, m, w, h) ELSE c
        c2 == IF "f" \in ks THEN RotateLeft(c1) ELSE c1
        c3 == IF "s" \in ks THEN RotateRight(c2) ELSE c2
    IN  IF "d" \in ks THEN Backward(c3, m, w, h) ELSE c3

(* Lines 86-118: four independent ifs, in this order. *)
UpdateCamera(c, m, w, h, ks) ==
    LET c1 == IF "e" \in ks THEN Forward(c, m, w, h) ELSE c
        c2 == IF "d" \in ks THEN Backward(c1, m, w, h) ELSE c1
        c3 == IF "f" \in ks THEN RotateLeft(c2) ELSE c2
    IN  IF "s" \in ks THEN RotateRight(c3) ELSE c3

(***************************************************************************)
(* The grids main hands to the frame loop: what generate_maze can return,  *)
(* coloured by lines 62-65.                                                *)
(***************************************************************************)
RECURSIVE GenRuns(_, _, _, _)
(* The grids the loop of lines 18-32 can end with from grid m and stack stk. *)
GenRuns(m, w, h, stk) ==
    IF stk = <<>>
    THEN {m}
    ELSE LET x == Top(stk)[1]
             y == Top(stk)[2]
             nb == Neighbors(m, w, h, x, y)
         IN  IF nb = {}
             THEN GenRuns(m, w, h, Popped(stk))
             ELSE UNION {GenRuns(Carved(m, w, h, x, y, n[1], n[2]), w, h,
                                 Append(stk, n)) : n \in nb}

GenerateMaze(w, h) ==
    GenRuns(SetCell(AllWalls(w, h), w, h, 1, 1, 0), w, h, <<<<1, 1>>>>)

RECURSIVE ColorRun(_, _, _, _, _, _)
(* Lines 62-65 from cell number k on (y = k // w, x = k % w), n draws made. *)
ColorRun(m, w, h, t, k, n) ==
    IF k >= w * h
    THEN m
    ELSE IF m[k \div w][k % w] # 0
         THEN ColorRun([m EXCEPT ![k \div w] = [@ EXCEPT ![k % w] = Draw(t, n)]],
                       w, h, t, k + 1, n + 1)
         ELSE ColorRun(m, w, h, t, k + 1, n)

(* Lines 62-65 on grid g with the draws of tape t. *)
ColorPass(g, w, h, t) == ColorRun(g, w, h, t, 0, 0)

(* main's dimensions are odd (line 57). *)
CamDims == {d \in 3 .. MaxCamDim : d % 2 = 1}

(* The draws of the colour pass in the grids the frames are followed on:   *)
(* 1, 2, 3, 4, 1, ... cut to the tape's length.                            *)
FrameTapes == {[i \in 1 .. TapeLen |-> ((i - 1) % 4) + 1]}

(* Where in its cell the camera is when the frames followed begin; line 68 *)
(* puts it at 1/2, 1/2 of cell (1, 1).                                     *)
StartFracs == {<<1, 100>>, <<1, 2>>, <<99, 100>>}

(* The frame loop at some frame: a grid of lines 59-65, the camera in an   *)
(* Empty cell (line 68 puts it at (1.5, 1.5)), facing as lines 69-71 say.  *)
InitCam ==
    /\ width \in CamDims
    /\ height \in CamDims
    /\ tape \in FrameTapes
    /\ maze \in {ColorPass(g, width, height, tape) : g \in GenerateMaze(width, height)}
    /\ stack = <<>>
    /\ pc = "frame"
    /\ cx = 0
    /\ cy = height
    /\ calls = Cardinality(Cells(width, height) \ {c \in Cells(width, height) : maze[c[2]][c[1]] = 0})
    /\ \E c \in {c \in Cells(width, height) : maze[c[2]][c[1]] = 0} :
       \E fx \in StartFracs, fy \in StartFracs :
           /\ posX = RAdd(FromInt(c[1]), fx)
           /\ posY = RAdd(FromInt(c[2]), fy)
    /\ dirX = StartDir.x /\ dirY = StartDir.y
    /\ planeX = StartPlane.x /\ planeY = StartPlane.y
    /\ running = TRUE
    /\ frame = 0
    /\ ray = NoRay
    /\ keys = {}
    /\ column = 0
    /\ screen = NoScreen

(* Lines 77-118 of one frame: the events, the keys held, the camera. *)
Frame ==
    /\ pc = "frame"
    /\ running
    /\ frame < MaxFrames
    /\ \E ks \in SUBSET Keys :
        LET c == UpdateCamera(Cam, maze, width, height, ks)
        IN  /\ keys' = ks
            /\ posX' = c.posX /\ posY' = c.posY
            /\ dirX' = c.dirX /\ dirY' = c.dirY
            /\ planeX' = c.planeX /\ planeY' = c.planeY
    /\ \E quit \in BOOLEAN : running' = ~quit
    /\ frame' = frame + 1
    /\ UNCHANGED <<width, height, maze, stack, pc, colorVars, ray, drawVars>>

(* Lines 77 and 203: running is False, the loop is left. *)
Exit ==
    /\ pc = "frame"
    /\ ~running
    /\ pc' = "exit"
    /\ UNCHANGED <<width, height, maze, stack, colorVars, camVars, ray, drawVars>>

NextCam == Frame \/ Exit

SpecCam == InitCam /\ [][NextCam]_vars

(***************************************************************************)
(* main: one pass of the column loop, lines 125-178                        *)
(***************************************************************************)
(* Lines 136-137 with 1.0 in place of 1e30. *)
HugeAsOne == <<1, 1>>

(* Lines 136-137: 1e30, the step length of an axis the ray does not move   *)
(* along; here a number beyond every side distance of a grid of the model. *)
Huge == <<1000000, 1>>

RAbs(a) == <<Abs(a[1]), a[2]>>

(* 1 / a for a # 0. *)
RInv(a) == Rat(a[2], a[1])

RDiv(a, b) == RMul(a, RInv(b))

IsZero(a) == a[1] = 0

IsNeg(a) == a[1] < 0

(* Lines 127-155 for column x with camera c. *)
RaySetup(c, x) ==
    LET cameraX == RSub(Rat(2 * x, ScreenWidth), FromInt(1))
        rdx == RAdd(c.dirX, RMul(c.planeX, cameraX))
        rdy == RAdd(c.dirY, RMul(c.planeY, cameraX))
        mx == RInt(c.posX)
        my == RInt(c.posY)
        ddx == IF ~IsZero(rdx) THEN RAbs(RInv(rdx)) ELSE Huge
        ddy == IF ~IsZero(rdy) THEN RAbs(RInv(rdy)) ELSE Huge
    IN  [x |-> x, rayDirX |-> rdx, rayDirY |-> rdy, mapX |-> mx, mapY |-> my,
         deltaDistX |-> ddx, deltaDistY |-> ddy,
         stepX |-> IF IsNeg(rdx) THEN -1 ELSE 1,
         stepY |-> IF IsNeg(rdy) THEN -1 ELSE 1,
         sideDistX |-> IF IsNeg(rdx)
                       THEN RMul(RSub(c.posX, FromInt(mx)), ddx)
                       ELSE RMul(RSub(FromInt(mx + 1), c.posX), ddx),
         sideDistY |-> IF IsNeg(rdy)
                       THEN RMul(RSub(c.posY, FromInt(my)), ddy)
                       ELSE RMul(RSub(FromInt(my + 1), c.posY), ddy),
         hit |-> FALSE, side |-> -1, perpWallDist |-> <<0, 1>>,
         lineHeight |-> 0, drawStart |-> 0, drawEnd |-> 0,
         wall_color |-> <<0, 0, 0>>]

(* Lines 158-165 moving two cells at a time. *)
DdaAdvanceTwoCells(r) ==
    IF RLt(r.sideDistX, r.sideDistY)
    THEN [r EXCEPT !.sideDistX = RAdd(r.sideDistX, r.deltaDistX),
                   !.mapX = r.mapX + 2 * r.stepX,
                   !.side = 0]
    ELSE [r EXCEPT !.sideDistY = RAdd(r.sideDistY, r.deltaDistY),
                   !.mapY = r.mapY + 2 * r.stepY,
                   !.side = 1]

(* Lines 158-165: one cell further along the axis with the nearer side. *)
DdaAdvance(r) ==
    IF RLt(r.sideDistX, r.sideDistY)
    THEN [r EXCEPT !.sideDistX = RAdd(r.sideDistX, r.deltaDistX),
                   !.mapX = r.mapX + r.stepX,
                   !.side = 0]
    ELSE [r EXCEPT !.sideDistY = RAdd(r.sideDistY, r.deltaDistY),
                   !.mapY = r.mapY + r.stepY,
                   !.side = 1]

(* Line 167 with > in place of >=. *)
OutOfBoundsOffByOne(mx, my, w, h) == mx < 0 \/ mx > w \/ my < 0 \/ my > h

(* Line 167. *)
OutOfBounds(mx, my, w, h) == mx < 0 \/ mx >= w \/ my < 0 \/ my >= h

(* Lines 175-178 with (1 + step) / 2 in place of (1 - step) / 2. *)
PerpWallDistFarFace(c, r) ==
    IF r.side = 0
    THEN RDiv(RAdd(RSub(FromInt(r.mapX), c.posX), Rat(1 + r.stepX, 2)), r.rayDirX)
    ELSE RDiv(RAdd(RSub(FromInt(r.mapY), c.posY), Rat(1 + r.stepY, 2)), r.rayDirY)

(* Lines 175-178. *)
PerpWallDist(c, r) ==
    IF r.side = 0
    THEN RDiv(RAdd(RSub(FromInt(r.mapX), c.posX), Rat(1 - r.stepX, 2)), r.rayDirX)
    ELSE RDiv(RAdd(RSub(FromInt(r.mapY), c.posY), Rat(1 - r.stepY, 2)), r.rayDirY)

(* Line 52. *)
ScreenHeight == 480

(* Line 181: 0.0001. *)
Epsilon == <<1, 10000>>

RECURSIVE MulDiv(_, _, _)
(* <<q, r>> with a * b = q * d + r and 0 <= r < d, for a, b >= 0 and d > 0, *)
(* without forming a * b.                                                  *)
MulDiv(a, b, d) ==
    IF a = 0
    THEN <<0, 0>>
    ELSE LET half == MulDiv(a \div 2, b, d)
             t == 2 * half[2] + (a % 2) * (b % d)
         IN  <<2 * half[1] + (a % 2) * (b \div d) + t \div d, t % d>>

(* Line 181: int(screen_height / (perpWallDist + 0.0001)), a sum that is   *)
(* not zero.                                                               *)
LineHeight(perp) ==
    LET v == RAdd(perp, Epsilon)
        q == MulDiv(ScreenHeight, v[2], Abs(v[1]))[1]
    IN  IF v[1] < 0 THEN -q ELSE q

Max(a, b) == IF a >= b THEN a ELSE b

Min(a, b) == IF a <= b THEN a ELSE b

(* Line 182 without max. *)
DrawStartUnclamped(lh) == FloorDiv2(-lh) + FloorDiv2(ScreenHeight)

(* Line 182. *)
DrawStart(lh) == Max(FloorDiv2(-lh) + FloorDiv2(ScreenHeight), 0)

(* Line 183. *)
DrawEnd(lh) == Min(FloorDiv2(lh) + FloorDiv2(ScreenHeight), ScreenHeight - 1)

(* Lines 39-44. *)
WALL_COLORS ==
    (1 :> <<0, 0, 255>>) @@ (2 :> <<255, 0, 0>>) @@
    (3 :> <<0, 255, 0>>) @@ (4 :> <<255, 255, 0>>)

White == <<255, 255, 255>>

(* Line 195: int(c * 0.8). *)
Shade(c) == RInt(RMul(FromInt(c), <<4, 5>>))

(* Lines 187-195 without the shading of lines 194-195. *)
WallColorUnshaded(r, m, w, h) ==
    IF OutOfBounds(r.mapX, r.mapY, w, h)
    THEN White
    ELSE LET wall_type == Cell(m, w, h, r.mapX, r.mapY)
         IN  IF wall_type \in DOMAIN WALL_COLORS
             THEN WALL_COLORS[wall_type] ELSE White

(* Lines 187-195. *)
WallColor(r, m, w, h) ==
    LET base == IF OutOfBounds(r.mapX, r.mapY, w, h)
                THEN White
                ELSE LET wall_type == Cell(m, w, h, r.mapX, r.mapY)
                     IN  IF wall_type \in DOMAIN WALL_COLORS
                         THEN WALL_COLORS[wall_type] ELSE White
    IN  IF r.side = 1
        THEN <<Shade(base[1]), Shade(base[2]), Shade(base[3])>>
        ELSE base

RECURSIVE SetCells(_, _, _, _, _)
(* Grid m with every cell of S set to v. *)
SetCells(m, w, h, S, v) ==
    IF S = {}
    THEN m
    ELSE LET c == CHOOSE c \in S : TRUE
         IN  SetCells(SetCell(m, w, h, c[1], c[2], v), w, h, S \ {c}, v)

(* The grids a ray is cast in: no Wall at all; the border all Wall, of     *)
(* value 1; and one Wall cell, of value 1 to 5 by its place in the grid    *)
(* (5 is not a key of WALL_COLORS).                                        *)
RayGrids(w, h) ==
    {SetCells(Repeat(Repeat(0, w), h), w, h, S, 1) :
        S \in {{}, {c \in Cells(w, h) :
                      c[1] = 0 \/ c[1] = w - 1 \/ c[2] = 0 \/ c[2] = h - 1}}}
    \cup {SetCell(Repeat(Repeat(0, w), h), w, h, c[1], c[2],
                  ((c[1] + w * c[2]) % 5) + 1) : c \in Cells(w, h)}

(* Where in its cell the camera is when a ray is cast. *)
RayFracs == {<<0, 1>>, <<1, 2>>}

(* The directions the camera faces when a ray is cast: unit vectors. *)
UnitDirs ==
    LET q == {<<<<1, 1>>, <<0, 1>>>>, <<<<4, 5>>, <<3, 5>>>>, <<<<3, 5>>, <<4, 5>>>>}
    IN  UNION {{<<d[1], d[2]>>, <<RNeg(d[2]), d[1]>>,
                <<RNeg(d[1]), RNeg(d[2])>>, <<d[2], RNeg(d[1])>>} : d \in q}

(* A camera inside a grid, plane at a right angle to dir as in lines 69-71, *)
(* about to cast a ray.                                                     *)
InitRay ==
    /\ width \in 1 .. MaxRayDim
    /\ height \in 1 .. MaxRayDim
    /\ maze \in RayGrids(width, height)
    /\ stack = <<>>
    /\ pc = "cast"
    /\ cx = 0
    /\ cy = 0
    /\ tape = <<>>
    /\ calls = 0
    /\ \E c \in Cells(width, height) :
       \E fx \in RayFracs, fy \in RayFracs :
           /\ posX = RAdd(FromInt(c[1]), fx)
           /\ posY = RAdd(FromInt(c[2]), fy)
    /\ \E d \in UnitDirs :
           /\ dirX = d[1]
           /\ dirY = d[2]
           /\ planeX = RMul(StartPlane.y, RNeg(d[2]))
           /\ planeY = RMul(StartPlane.y, d[1])
    /\ running = TRUE
    /\ frame = 0
    /\ ray = NoRay
    /\ keys = {}
    /\ column = 0
    /\ screen = NoScreen

(* Lines 125-155: the ray of one column is set up. *)
RayStart ==
    /\ pc = "cast"
    /\ \E x \in SampleColumns : ray' = RaySetup(Cam, x)
    /\ pc' = "dda"
    /\ UNCHANGED <<width, height, maze, stack, colorVars, camVars, drawVars>>

(* Lines 156-172: one iteration of the DDA loop.  Reading the grid at an   *)
(* index that is not valid raises IndexError.                              *)
DdaStep ==
    /\ pc = "dda"
    /\ ~ray.hit
    /\ LET r == DdaAdvance(ray)
       IN  IF OutOfBounds(r.mapX, r.mapY, width, height)
           THEN /\ ray' = [r EXCEPT !.hit = TRUE]
                /\ pc' = pc
           ELSE IF PyValid(r.mapY, height) /\ PyValid(r.mapX, width)
                THEN /\ ray' = [r EXCEPT !.hit =
                                   Cell(maze, width, height, r.mapX, r.mapY) # 0]
                     /\ pc' = pc
                ELSE /\ ray' = r
                     /\ pc' = "error"
    /\ UNCHANGED <<width, height, maze, stack, colorVars, camVars, drawVars>>

(* Lines 156 and 174-195: the loop is left; the distance, the span and    *)
(* the colour of the column's line are computed.  Dividing by a zero ray   *)
(* component or by a zero perpWallDist + 0.0001 raises ZeroDivisionError.  *)
RayEnd ==
    /\ pc = "dda"
    /\ ray.hit
    /\ IF IsZero(IF ray.side = 0 THEN ray.rayDirX ELSE ray.rayDirY)
       THEN /\ pc' = "error"
            /\ ray' = ray
       ELSE LET perp == PerpWallDist(Cam, ray)
            IN  IF IsZero(RAdd(perp, Epsilon))
                THEN /\ pc' = "error"
                     /\ ray' = [ray EXCEPT !.perpWallDist = perp]
                ELSE /\ pc' = "drawn"
                     /\ ray' = [ray EXCEPT
                            !.perpWallDist = perp,
                            !.lineHeight = LineHeight(perp),
                            !.drawStart = DrawStart(LineHeight(perp)),
                            !.drawEnd = DrawEnd(LineHeight(perp)),
                            !.wall_color = WallColor(ray, maze, width, height)]
    /\ UNCHANGED <<width, height, maze, stack, colorVars, camVars, drawVars>>

NextRay == RayStart \/ DdaStep \/ RayEnd

SpecRay == InitRay /\ [][NextRay]_vars

(* Lines 156-172: an iteration of the loop that can run does run. *)
FairSpecRay == SpecRay /\ WF_vars(DdaStep)

(***************************************************************************)
(* main: the frame loop with its rendering, lines 77-201                   *)
(***************************************************************************)
(* Line 122. *)
Background == <<100, 100, 100>>

(* Line 125 stepping past a column: the column after the next one. *)
NextColumnSkipping(x) ==
    LET later == {c \in SampleColumns : c > x}
        next == IF later = {} THEN ScreenWidth
                ELSE CHOOSE c \in later : \A d \in later : c <= d
        after == {c \in SampleColumns : c > next}
    IN  IF after = {}
        THEN ScreenWidth
        ELSE CHOOSE c \in after : \A d \in after : c <= d

(* Line 125: the column after x of those followed, screen_width after the  *)
(* last.                                                                   *)
NextColumn(x) ==
    LET later == {c \in SampleColumns : c > x}
    IN  IF later = {}
        THEN ScreenWidth
        ELSE CHOOSE c \in later : \A d \in later : c <= d

(* The frame loop about to run its first frame: a grid of lines 59-65, the *)
(* camera at the centre of an Empty cell (line 68: of cell (1, 1)), facing *)
(* as lines 69-71 say.                                                     *)
InitFrame ==
    /\ width \in CamDims
    /\ height \in CamDims
    /\ tape \in FrameTapes
    /\ maze \in {ColorPass(g, width, height, tape) : g \in GenerateMaze(width, height)}
    /\ stack = <<>>
    /\ pc = "sample"
    /\ cx = 0
    /\ cy = height
    /\ calls = Cardinality(Cells(width, height) \ {c \in Cells(width, height) : maze[c[2]][c[1]] = 0})
    /\ \E c \in {c \in Cells(width, height) : maze[c[2]][c[1]] = 0} :
           /\ posX = RAdd(FromInt(c[1]), <<1, 2>>)
           /\ posY = RAdd(FromInt(c[2]), <<1, 2>>)
    /\ dirX = StartDir.x /\ dirY = StartDir.y
    /\ planeX = StartPlane.x /\ planeY = StartPlane.y
    /\ running = TRUE
    /\ frame = 0
    /\ ray = NoRay
    /\ keys = {}
    /\ column = 0
    /\ screen = NoScreen

(* Lines 77-118: the loop test, the events, the keys held, the camera. *)
FrameBegin ==
    /\ pc = "sample"
    /\ running
    /\ frame < MaxFrames
    /\ \E ks \in SUBSET Keys :
        LET c == UpdateCamera(Cam, maze, width, height, ks)
        IN  /\ keys' = ks
            /\ posX' = c.posX /\ posY' = c.posY
            /\ dirX' = c.dirX /\ dirY' = c.dirY
            /\ planeX' = c.planeX /\ planeY' = c.planeY
    /\ \E quit \in BOOLEAN : running' = ~quit
    /\ frame' = frame + 1
    /\ pc' = "fill"
    /\ UNCHANGED <<width, height, maze, stack, colorVars, ray, drawVars>>

(* Lines 122 and 125: the canvas is filled, the column loop starts at 0. *)
Fill ==
    /\ pc = "fill"
    /\ screen' = [screen EXCEPT !.canvas =
                      [x \in SampleColumns |-> [bg |-> Background, line |-> <<>>]]]
    /\ column' = 0
    /\ pc' = "column"
    /\ UNCHANGED <<width, height, maze, stack, colorVars, camVars, ray>>

(* Lines 125-155 for the loop's x. *)
ColumnStart ==
    /\ pc = "column"
    /\ column < ScreenWidth
    /\ ray' = RaySetup(Cam, column)
    /\ pc' = "dda"
    /\ UNCHANGED <<width, height, maze, stack, colorVars, camVars, drawVars>>

(* Line 198 drawing into the grid as well: the cell the ray ended on is    *)
(* cleared.                                                                *)
DrawLineIntoGrid ==
    /\ pc = "drawn"
    /\ screen' = [screen EXCEPT !.canvas[ray.x].line =
                      <<ray.drawStart, ray.drawEnd, ray.wall_color>>]
    /\ column' = NextColumn(column)
    /\ pc' = "column"
    /\ maze' = IF OutOfBounds(ray.mapX, ray.mapY, width, height)
               THEN maze
               ELSE SetCell(maze, width, height, ray.mapX, ray.mapY, 0)
    /\ UNCHANGED <<width, height, stack, colorVars, camVars, ray>>

(* Line 198, and line 125's next x. *)
DrawLine ==
    /\ pc = "drawn"
    /\ screen' = [screen EXCEPT !.canvas[ray.x].line =
                      <<ray.drawStart, ray.drawEnd, ray.wall_color>>]
    /\ column' = NextColumn(column)
    /\ pc' = "column"
    /\ UNCHANGED <<width, height, maze, stack, colorVars, camVars, ray>>

(* Lines 200-201: the column loop is over, the canvas is presented. *)
Flip ==
    /\ pc = "column"
    /\ column >= ScreenWidth
    /\ screen' = [screen EXCEPT !.shown = screen.canvas]
    /\ pc' = "sample"
    /\ UNCHANGED <<width, height, maze, stack, colorVars, camVars, ray, column>>

(* Lines 77 and 203: running is False, the loop is left. *)
Quit ==
    /\ pc = "sample"
    /\ ~running
    /\ pc' = "exit"
    /\ UNCHANGED <<width, height, maze, stack, colorVars, camVars, ray, drawVars>>

NextFrame ==
    FrameBegin \/ Fill \/ ColumnStart \/ DdaStep \/ RayEnd \/ DrawLine \/ Flip \/ Quit

SpecFrame == InitFrame /\ [][NextFrame]_vars

(***************************************************************************)
(* main from its call of generate_maze to its exit, lines 57-203           *)
(***************************************************************************)
(* Lines 57-59: the dimensions are odd; the colour pass draws 1, 2, ...    *)
InitMain == InitGen(CamDims, FrameTapes)

(* Lines 67-76: the camera is put at (1.5, 1.5) facing (1, 0). *)
CameraInit ==
    /\ pc = "colored"
    /\ posX' = <<3, 2>> /\ posY' = <<3, 2>>
    /\ dirX' = StartDir.x /\ dirY' = StartDir.y
    /\ planeX' = StartPlane.x /\ planeY' = StartPlane.y
    /\ running' = TRUE
    /\ pc' = "sample"
    /\ UNCHANGED <<width, height, maze, stack, colorVars, frame, keys, ray, drawVars>>

NextMain == Next \/ ColorNext \/ CameraInit \/ NextFrame

SpecMain == InitMain /\ [][NextMain]_vars

(* The generation loop is a single thread that runs until it returns. *)
FairSpec == Spec /\ WF_vars(Next)

(***************************************************************************)
(* Properties of generate_maze                                             *)
(***************************************************************************)
ValidDims == width % 2 = 1 /\ height % 2 = 1 /\ width >= 3 /\ height >= 3

EmptyCells(m, w, h) == {c \in Cells(w, h) : m[c[2]][c[1]] = 0}

Adjacent(a, b) == Abs(a[1] - b[1]) + Abs(a[2] - b[2]) = 1

RECURSIVE Flood(_, _)
(* The cells of E reachable from S through 4-adjacent cells of E. *)
Flood(S, E) ==
    LET N == S \cup {c \in E : \E s \in S : Adjacent(s, c)}
    IN  IF N = S THEN S ELSE Flood(N, E)

Junctions(w, h) == {c \in Cells(w, h) : c[1] % 2 = 1 /\ c[2] % 2 = 1}

Between(w, h) == {c \in Cells(w, h) : (c[1] + c[2]) % 2 = 1}

Border(w, h) ==
    {c \in Cells(w, h) : c[1] = 0 \/ c[1] = w - 1 \/ c[2] = 0 \/ c[2] = h - 1}

WallJunctions(m, w, h) == Junctions(w, h) \ EmptyCells(m, w, h)

(* C1: for odd width and height >= 3 the grid generate_maze returns is a   *)
(* perfect maze: every Empty cell is reachable from (1,1) through          *)
(* 4-adjacent Empty cells, every junction (odd, odd) cell is Empty, and    *)
(* the opened cells between junctions number one less than the Empty       *)
(* junctions, so the passages form a spanning tree without cycles.         *)
C1_PerfectMaze ==
    (pc = "done" /\ ValidDims) =>
        LET E == EmptyCells(maze, width, height)
        IN  /\ <<1, 1>> \in E
            /\ Flood({<<1, 1>>}, E) = E
            /\ Junctions(width, height) \subseteq E
            /\ Cardinality(E \cap Between(width, height))
                   = Cardinality(E \cap Junctions(width, height)) - 1

C1_Witness ==
    /\ pc = "done" /\ width = 7 /\ height = 5
    /\ maze[1][2] = 1 /\ maze[2][1] = 0 /\ maze[3][4] = 1

(* C2: for odd width and height >= 3, in every state of generate_maze      *)
(* after the grid is allocated, and in the returned grid, every cell of    *)
(* row 0, row height-1, column 0 and column width-1 is non-zero.           *)
C2_BorderIsWall ==
    (pc \in {"loop", "done"} /\ ValidDims) =>
        \A c \in Border(width, height) : maze[c[2]][c[1]] # 0

C2_Witness ==
    /\ pc = "loop" /\ ValidDims /\ Len(stack) > 1
    /\ Top(stack) = <<width - 2, height - 2>>
    /\ maze[height - 2][width - 2] = 0

(* C3: generate_maze called with a width or height that is even or less    *)
(* than 3 raises an error and returns no grid.                             *)
C3_InvalidDimsRejected == (~ValidDims) => pc # "done"

(* C5: for odd width and height >= 3 the loop ends with an empty stack,    *)
(* and every iteration is a push that turns exactly one Wall junction      *)
(* Empty, or a pop of the last pushed cell that leaves the grid alone, or  *)
(* the exit on the empty stack.                                            *)
C5_LoopStep ==
    (pc = "loop" /\ ValidDims) =>
        \/ /\ Len(stack') = Len(stack) + 1
           /\ SubSeq(stack', 1, Len(stack)) = stack
           /\ Cardinality(WallJunctions(maze', width, height))
                  = Cardinality(WallJunctions(maze, width, height)) - 1
        \/ /\ stack # <<>>
           /\ stack' = SubSeq(stack, 1, Len(stack) - 1)
           /\ maze' = maze
        \/ /\ stack = <<>>
           /\ pc' = "done"

C5_Terminates ==
    /\ ValidDims => <>(pc = "done" /\ stack = <<>>)
    /\ [][C5_LoopStep]_vars

C5_Witness ==
    /\ pc = "done" /\ stack = <<>> /\ width = 5 /\ height = 7
    /\ WallJunctions(maze, width, height) = {}

(***************************************************************************)
(* Properties of the colour pass                                           *)
(***************************************************************************)
(* C6: no step of the colour pass changes whether a cell is Empty (0), and *)
(* when the pass is over every cell that is not Empty holds one of the     *)
(* indices 1, 2, 3, 4: a cell is Empty after the pass if and only if it    *)
(* was Empty before it.                                                    *)
C6_ColorStep ==
    (pc \in {"done", "color"}) =>
        \A c \in Cells(width, height) :
            (maze'[c[2]][c[1]] = 0) <=> (maze[c[2]][c[1]] = 0)

C6_ColorPassKeepsEmpty ==
    /\ [][C6_ColorStep]_vars
    /\ [](pc = "colored" =>
            \A c \in Cells(width, height) : maze[c[2]][c[1]] \in 0 .. 4)

C6_Witness ==
    /\ pc = "colored" /\ width = 5 /\ height = 5
    /\ maze[1][1] = 0 /\ maze[1][2] = 0 /\ maze[3][2] = 0 /\ maze[2][1] \in 1 .. 4
    /\ maze[0][0] = 4 /\ maze[0][1] = 2 /\ maze[2][2] # 0

(* The grids of GenerateMaze and ColorPass are the grids the steps of      *)
(* generate_maze and of the colour pass end with.                          *)
GridsAgree ==
    /\ pc = "done" => maze \in GenerateMaze(width, height)
    /\ pc = "colored" =>
           maze \in {ColorPass(g, width, height, tape) : g \in GenerateMaze(width, height)}

(***************************************************************************)
(* Properties of the camera update                                         *)
(***************************************************************************)
InFrames == pc \in {"frame", "exit"}

(* C4: from a camera position whose cell is Empty, after every frame's     *)
(* update, whatever keys are held, the cell                                *)
(* maze[int(posY)][int(posX)] is Empty.                                    *)
C4_CameraCellEmpty ==
    InFrames => Cell(maze, width, height, RInt(posX), RInt(posY)) = 0

(* The camera at (1.99, 1.5) of the 3 x 3 grid turned left, then moved     *)
(* forward: X is blocked by the wall at x = 2, Y slides.                   *)
C4_Witness ==
    /\ InFrames /\ width = 3 /\ height = 3 /\ frame = 2
    /\ posX = <<199, 100>> /\ posY = <<153, 100>>

Dot(ax, ay, bx, by) == RAdd(RMul(ax, bx), RMul(ay, by))

Cross(ax, ay, bx, by) == RSub(RMul(ax, by), RMul(ay, bx))

(* C8: after any sequence of left and right rotations the squared lengths  *)
(* of dir and of plane, and their dot and cross products (the angle        *)
(* between them), are those of the initial vectors: dir and plane stay     *)
(* perpendicular.                                                          *)
C8_RotationPreserves ==
    InFrames =>
        /\ Dot(dirX, dirY, dirX, dirY)
               = Dot(StartDir.x, StartDir.y, StartDir.x, StartDir.y)
        /\ Dot(planeX, planeY, planeX, planeY)
               = Dot(StartPlane.x, StartPlane.y, StartPlane.x, StartPlane.y)
        /\ Dot(dirX, dirY, planeX, planeY)
               = Dot(StartDir.x, StartDir.y, StartPlane.x, StartPlane.y)
        /\ Dot(dirX, dirY, planeX, planeY) = <<0, 1>>
        /\ Cross(dirX, dirY, planeX, planeY)
               = Cross(StartDir.x, StartDir.y, StartPlane.x, StartPlane.y)

C8_Witness ==
    /\ InFrames /\ frame = 2
    /\ dirX = <<7, 25>> /\ dirY = <<24, 25>>
    /\ planeX = <<-396, 625>> /\ planeY = <<231, 1250>>

(* A step of the frame loop that is one frame. *)
IsFrameStep == pc = "frame" /\ pc' = "frame" /\ frame' = frame + 1

CamNext ==
    [posX |-> posX', posY |-> posY', dirX |-> dirX', dirY |-> dirY',
     planeX |-> planeX', planeY |-> planeY']

Pos(c) == <<c.posX, c.posY>>

Facing(c) == <<c.dirX, c.dirY, c.planeX, c.planeY>>

(* C10 as stated: in every frame the position is changed by at most one    *)
(* translation (it is the old one, the forward one or the backward one)    *)
(* and dir and plane by at most one rotation.                              *)
C10_AtMostOneTranslation ==
    [][IsFrameStep =>
        /\ Pos(CamNext) \in {Pos(Cam),
                             Pos(Forward(Cam, maze, width, height)),
                             Pos(Backward(Cam, maze, width, height))}
        /\ Facing(CamNext) \in {Facing(Cam), Facing(RotateLeft(Cam)),
                                Facing(RotateRight(Cam))}]_vars

(* C10 amended: in every frame the camera is changed by at most one        *)
(* forward translation, then at most one backward translation, then at     *)
(* most one left rotation, then at most one right rotation; with both      *)
(* translation keys held both translations are applied.                    *)
C10_OneOfEachKind ==
    [][IsFrameStep =>
        \E fw \in BOOLEAN, bw \in BOOLEAN, lt \in BOOLEAN, rt \in BOOLEAN :
            LET c1 == IF fw THEN Forward(Cam, maze, width, height) ELSE Cam
                c2 == IF bw THEN Backward(c1, maze, width, height) ELSE c1
                c3 == IF lt THEN RotateLeft(c2) ELSE c2
                c4 == IF rt THEN RotateRight(c3) ELSE c3
            IN  CamNext = c4]_vars

(* The camera at (1.99, 1.5) of the 3 x 3 grid turned left, then forward   *)
(* and backward held together: forward is blocked in X and slides in Y,    *)
(* backward moves both back.                                               *)
C10_Witness ==
    /\ InFrames /\ width = 3 /\ height = 3 /\ frame = 2
    /\ posX = <<39, 20>> /\ posY = <<3, 2>>
    /\ dirX = <<4, 5>> /\ dirY = <<3, 5>>

(***************************************************************************)
(* Properties of the DDA loop                                              *)
(***************************************************************************)
InGrid(mx, my) == 0 <= mx /\ mx < width /\ 0 <= my /\ my < height

(* The ray runs along the camera's row or column and every cell of it      *)
(* ahead of the camera's cell is Empty.                                    *)
AxisRayInOpenSpace ==
    LET mx == RInt(posX)
        my == RInt(posY)
    IN  \/ /\ IsZero(ray.rayDirY) /\ ~IsZero(ray.rayDirX)
           /\ \A c \in 0 .. width - 1 :
                  (c - mx) * ray.stepX > 0 => maze[my][c] = 0
        \/ /\ IsZero(ray.rayDirX) /\ ~IsZero(ray.rayDirY)
           /\ \A c \in 0 .. height - 1 :
                  (c - my) * ray.stepY > 0 => maze[c][mx] = 0

C7_DdaSafe ==
    (pc \in {"dda", "drawn", "error"}) =>
        /\ pc = "error" => ray.hit
        /\ (~ray.hit) => InGrid(ray.mapX, ray.mapY)
        /\ (~ray.hit /\ ray.side # -1) => maze[ray.mapY][ray.mapX] = 0
        /\ (ray.hit /\ InGrid(ray.mapX, ray.mapY)) => maze[ray.mapY][ray.mapX] # 0
        /\ (ray.hit /\ AxisRayInOpenSpace) => ~InGrid(ray.mapX, ray.mapY)

(* C7: for every grid, camera position inside it and ray, the DDA loop     *)
(* ends (once entered, hit becomes True); it goes on only through Empty    *)
(* cells inside the grid, so it ends on an in-bounds cell that is not      *)
(* Empty or on the first stepped cell outside the grid; and a ray along a  *)
(* grid axis through open space ends outside the grid.                     *)
C7_DdaTerminates ==
    /\ [](pc = "dda" => <>(ray.hit))
    /\ [](C7_DdaSafe)

(* A ray along the row of a 3-wide grid with no Wall in it, from column 0: *)
(* it ends at mapX = 3, outside.                                           *)
C7_Witness ==
    /\ pc = "drawn" /\ ray.hit /\ width = 3
    /\ RInt(posX) = 0 /\ IsZero(ray.rayDirY) /\ ray.stepX = 1
    /\ ray.mapX = 3 /\ ray.side = 0

(* The columns of the camera's row ahead of the camera (x greater) that    *)
(* hold a Wall.                                                            *)
WallsAhead == {c \in RInt(posX) + 1 .. width - 1 : maze[RInt(posY)][c] # 0}

NearestWallAhead == CHOOSE k \in WallsAhead : \A c \in WallsAhead : k <= c

(* C9: with the camera facing (1, 0) and the centre ray (cameraX = 0), and *)
(* the nearest Wall of the camera's row ahead in column k, the DDA ends on *)
(* that cell with side = 0 and the perpendicular distance is k - posX.     *)
C9_PerpDistToFace ==
    (/\ pc = "drawn"
     /\ dirX = <<1, 1>> /\ dirY = <<0, 1>>
     /\ 2 * ray.x = ScreenWidth
     /\ WallsAhead # {}) =>
        /\ ray.mapX = NearestWallAhead
        /\ ray.mapY = RInt(posY)
        /\ ray.side = 0
        /\ ray.perpWallDist = RSub(FromInt(NearestWallAhead), posX)

(* The camera at x = 1/2 of a 3-wide grid, the Wall in column 2, column 1  *)
(* Empty: the distance is 3/2.                                             *)
C9_Witness ==
    /\ pc = "drawn" /\ width = 3
    /\ dirX = <<1, 1>> /\ dirY = <<0, 1>> /\ ray.x = 320
    /\ posX = <<1, 2>> /\ WallsAhead = {2}
    /\ ray.mapX = 2 /\ ray.side = 0 /\ ray.perpWallDist = <<3, 2>>

(***************************************************************************)
(* Properties of the camera update, continued                              *)
(***************************************************************************)
(* C11: in every frame, whatever keys are held, the position after the     *)
(* frame is the one the held translation keys alone give (every requested  *)
(* translation applied, with dir as it was before the frame's rotation),   *)
(* and dir and plane are the ones the held rotation keys alone give.       *)
C11_TranslationUsesOldDir ==
    [][IsFrameStep =>
        LET t == UpdateCamera(Cam, maze, width, height, keys' \cap {"e", "d"})
            r == UpdateCamera(Cam, maze, width, height, keys' \cap {"f", "s"})
        IN  /\ Pos(CamNext) = Pos(t)
            /\ Facing(CamNext) = Facing(r)]_vars

(* Forward and rotate left held with the camera at (1.5, 1.5) facing       *)
(* (1, 0): it moves to (1.55, 1.5), along the old dir, and faces the       *)
(* rotated one.                                                            *)
C11_Witness ==
    /\ InFrames /\ frame = 1 /\ keys = {"e", "f"}
    /\ posX = <<31, 20>> /\ posY = <<3, 2>>
    /\ dirX = <<4, 5>> /\ dirY = <<3, 5>>

(* The step a frame asks for when exactly one of the translation keys is   *)
(* held: +move_speed along dir for E, -move_speed for D.                   *)
StepSign == IF "e" \in keys' THEN 1 ELSE -1

NewX == RAdd(posX, RMul(RMul(dirX, MoveSpeed), FromInt(StepSign)))

NewY == RAdd(posY, RMul(RMul(dirY, MoveSpeed), FromInt(StepSign)))

(* C12: in a frame with one translation key held, pos.x becomes new.x      *)
(* exactly when grid[floor(pos.y)][floor(new.x)] is Empty, else it is      *)
(* unchanged; then pos.y becomes new.y exactly when                        *)
(* grid[floor(new.y)][floor(pos.x)] is Empty, pos.x being the value after  *)
(* the X decision, else it is unchanged.                                   *)
C12_AxisSeparated ==
    [][(IsFrameStep /\ Cardinality(keys' \cap {"e", "d"}) = 1) =>
        /\ posX' = IF maze[RFloor(posY)][RFloor(NewX)] = 0 THEN NewX ELSE posX
        /\ posY' = IF maze[RFloor(NewY)][RFloor(posX')] = 0 THEN NewY ELSE posY]_vars

(* Forward from (1.99, 1.5) of the 3 x 3 grid facing (4/5, 3/5): X is      *)
(* blocked by the Wall at column 2 and Y still advances to 1.53.           *)
C12_Witness ==
    /\ InFrames /\ width = 3 /\ height = 3 /\ frame = 2 /\ keys = {"e"}
    /\ dirX = <<4, 5>> /\ dirY = <<3, 5>>
    /\ posX = <<199, 100>> /\ posY = <<153, 100>>

(***************************************************************************)
(* Properties of the column loop, continued                                *)
(***************************************************************************)
(* C13: once a ray with a zero component is set up, the loop never moves   *)
(* it along that component's axis (the map coordinate stays the camera's), *)
(* the side it ends on is the other axis, and no ZeroDivisionError is      *)
(* raised by lines 175-178.                                                *)
C13_ZeroComponentNeverAdvanced ==
    (pc \in {"dda", "drawn", "error"}) =>
        /\ IsZero(ray.rayDirX) =>
              ray.mapX = RInt(posX) /\ ray.side # 0 /\ pc # "error"
        /\ IsZero(ray.rayDirY) =>
              ray.mapY = RInt(posY) /\ ray.side # 1 /\ pc # "error"

(* A ray straight along y from row 0 of a 3-high grid with no Wall in its  *)
(* column: three steps along y, none along x, the distance computed.       *)
C13_Witness ==
    /\ pc = "drawn" /\ height = 3 /\ RInt(posY) = 0
    /\ IsZero(ray.rayDirX) /\ ray.stepY = 1
    /\ ray.mapY = 3 /\ ray.mapX = RInt(posX) /\ ray.side = 1
    /\ ray.perpWallDist = RSub(FromInt(3), posY)

(* C14: for every column whose perpendicular distance is not negative,     *)
(* 0 <= drawStart <= drawEnd <= screen_height - 1; the span is the         *)
(* projected height centred on screen_height / 2 (half of it above, half   *)
(* below) unless the screen's first or last row cuts it.                   *)
C14_SpanOnScreen ==
    (pc = "drawn" /\ ~IsNeg(ray.perpWallDist)) =>
        /\ 0 <= ray.drawStart
        /\ ray.drawStart <= ray.drawEnd
        /\ ray.drawEnd <= ScreenHeight - 1
        /\ ray.lineHeight >= 0
        /\ ray.drawStart \in {0, ScreenHeight \div 2 - (ray.lineHeight + 1) \div 2}
        /\ ray.drawEnd \in {ScreenHeight - 1, ScreenHeight \div 2 + ray.lineHeight \div 2}

(* A Wall at distance 0 (the camera on the edge of its cell, the Wall the  *)
(* next cell): the height is 4 800 000 and the span is the whole column.   *)
C14_Witness ==
    /\ pc = "drawn" /\ IsZero(ray.perpWallDist)
    /\ ray.lineHeight = 4800000
    /\ ray.drawStart = 0 /\ ray.drawEnd = ScreenHeight - 1

(***************************************************************************)
(* Properties of the frame loop                                            *)
(***************************************************************************)
HasLine(surface, x) == surface[x].line # <<>>

(* While the columns are drawn the canvas has the background everywhere    *)
(* and a line on exactly the columns before the loop's x.                  *)
C15_CanvasInOrder ==
    (pc \in {"column", "dda", "drawn"}) =>
        /\ \A x \in SampleColumns :
              /\ screen.canvas[x].bg = Background
              /\ HasLine(screen.canvas, x) <=> x < column
        /\ pc \in {"dda", "drawn"} => ray.x = column

(* What is shown is nothing or a canvas with a line on every column. *)
C15_ShownComplete ==
    \/ screen.shown = NoScreen.shown
    \/ \A x \in SampleColumns :
          screen.shown[x].bg = Background /\ HasLine(screen.shown, x)

C15_Steps ==
    /\ (Cam' # Cam \/ keys' # keys) => (pc = "sample" /\ pc' = "fill")
    /\ (pc' = "dda" /\ pc # "dda") =>
          (pc = "column" /\ ray'.x = column /\ UNCHANGED screen)
    /\ (screen'.canvas # screen.canvas) =>
          \/ pc = "fill" /\ column' = 0
          \/ /\ pc = "drawn"
             /\ column' > column
             /\ HasLine(screen'.canvas, column)
             /\ \A x \in SampleColumns \ {column} :
                    screen'.canvas[x] = screen.canvas[x]
    /\ (screen'.shown # screen.shown) =>
          (pc = "column" /\ column >= ScreenWidth /\ screen'.shown = screen.canvas)

(* C15: the keys are sampled and the camera changed only at the start of a *)
(* frame, before the fill and before any ray is set up; the canvas is      *)
(* filled before the first column and then gets one line per column, in    *)
(* increasing order of x, the camera unchanged all the while; the canvas   *)
(* is presented only once every column has its line.                       *)
C15_FrameOrder ==
    /\ [](C15_CanvasInOrder /\ C15_ShownComplete)
    /\ [][C15_Steps]_vars

(* The first frame, with rotate left held, has been presented. *)
C15_Witness ==
    /\ pc = "sample" /\ frame = 1 /\ keys = {"f"}
    /\ dirX = <<4, 5>> /\ dirY = <<3, 5>>
    /\ screen.shown = screen.canvas
    /\ \A x \in SampleColumns : HasLine(screen.shown, x)

(***************************************************************************)
(* Properties of the column's colour                                       *)
(***************************************************************************)
(* The palette colour of a cell value, white for a value that has none. *)
PaletteColour(v) ==
    CASE v = 1 -> <<0, 0, 255>>
      [] v = 2 -> <<255, 0, 0>>
      [] v = 3 -> <<0, 255, 0>>
      [] v = 4 -> <<255, 255, 0>>
      [] OTHER -> <<255, 255, 255>>

(* C16: the colour of a column is white when the DDA ended outside the     *)
(* grid, else the palette colour of the cell it ended on (white for a      *)
(* value not in 1..4); when the last step was along y (side = 1) each      *)
(* channel is 0.8 times that, truncated; when along x, it is unchanged.    *)
C16_ColumnColour ==
    (pc = "drawn") =>
        LET base == IF InGrid(ray.mapX, ray.mapY)
                    THEN PaletteColour(maze[ray.mapY][ray.mapX])
                    ELSE <<255, 255, 255>>
        IN  /\ ray.side = 0 => ray.wall_color = base
            /\ ray.side = 1 =>
                  ray.wall_color = <<(base[1] * 8) \div 10, (base[2] * 8) \div 10,
                                     (base[3] * 8) \div 10>>
            /\ ray.side \in {0, 1}

(* A Wall of value 4 reached by a step along y: yellow, shaded. *)
C16_Witness ==
    /\ pc = "drawn" /\ InGrid(ray.mapX, ray.mapY)
    /\ maze[ray.mapY][ray.mapX] = 4 /\ ray.side = 1
    /\ ray.wall_color = <<204, 204, 0>>

(***************************************************************************)
(* Properties of main as a whole                                           *)
(***************************************************************************)
FrameLoop == {"sample", "fill", "column", "dda", "drawn"}

(* C17: once the colour pass is over and the frame loop is entered, every  *)
(* step (camera update, ray cast, drawing, presenting, leaving) leaves     *)
(* every cell of the grid as it is, and is followed by the frame loop or   *)
(* the end of the program only, whatever keys are held in each frame.      *)
C17_GridImmutable ==
    [][(pc \in FrameLoop) =>
          /\ maze' = maze
          /\ width' = width /\ height' = height
          /\ pc' \in FrameLoop \cup {"exit", "error"}]_vars

(* A 5 x 5 grid generated and coloured in this run, two frames with keys   *)
(* held rendered, the program left.                                        *)
C17_Witness ==
    /\ pc = "exit" /\ frame = 2 /\ keys = {"e", "s"}
    /\ width = 5 /\ height = 5 /\ calls = 18
    /\ maze[0][0] = 1 /\ maze[0][1] = 2 /\ maze[1][1] = 0
    /\ \A x \in SampleColumns : HasLine(screen.shown, x)

(***************************************************************************)
(* Properties of generate_maze, continued                                  *)
(***************************************************************************)
(* The cells two away from (x, y) along one axis that are strictly inside  *)
(* a w x h grid.                                                           *)
InteriorTwoAway(w, h, x, y) ==
    {c \in Cells(w, h) :
        /\ 0 < c[1] /\ c[1] < w - 1 /\ 0 < c[2] /\ c[2] < h - 1
        /\ \/ c[2] = y /\ Abs(c[1] - x) = 2
           \/ c[1] = x /\ Abs(c[2] - y) = 2}

C18_Grid ==
    (width = 3 /\ height = 3 /\ pc \in {"loop", "done"}) =>
        /\ \A c \in Cells(3, 3) : maze[c[2]][c[1]] = IF c = <<1, 1>> THEN 0 ELSE 1
        /\ stack \in {<<<<1, 1>>>>, <<>>}
        /\ InteriorTwoAway(3, 3, 1, 1) = {}
        /\ pc = "done" => stack = <<>>

(* C18: in generate_maze(3, 3) no cell two away from (1, 1) is inside the  *)
(* border, the first iteration of the loop pops (1, 1) and leaves the      *)
(* stack empty, and in every state from the loop's start to the return     *)
(* (1, 1) is the only Empty cell, the other eight being Wall.              *)
C18_ThreeByThree ==
    /\ [](C18_Grid)
    /\ [][(width = 3 /\ height = 3 /\ pc = "loop" /\ stack # <<>>) =>
             (stack' = <<>> /\ maze' = maze /\ pc' = "loop")]_vars

C18_Witness ==
    /\ width = 3 /\ height = 3 /\ pc = "done" /\ stack = <<>>
    /\ maze[1][1] = 0 /\ maze[0][0] = 1 /\ maze[1][2] = 1 /\ maze[2][1] = 1

(* The cell midway between two cells 2 apart on one axis. *)
Midway(a, b) == <<(a[1] + b[1]) \div 2, (a[2] + b[2]) \div 2>>

TwoApart(a, b) ==
    \/ a[2] = b[2] /\ Abs(a[1] - b[1]) = 2
    \/ a[1] = b[1] /\ Abs(a[2] - b[2]) = 2

C19_StackAndGrid ==
    (ValidDims /\ pc \in {"loop", "done"}) =>
        /\ \A i \in 1 .. Len(stack) :
              /\ stack[i][1] % 2 = 1 /\ stack[i][2] % 2 = 1
              /\ maze[stack[i][2]][stack[i][1]] = 0
        /\ \A i \in 1 .. Len(stack) - 1 :
              /\ TwoApart(stack[i], stack[i + 1])
              /\ LET mid == Midway(stack[i], stack[i + 1])
                 IN  maze[mid[2]][mid[1]] = 0
        /\ \A c \in Cells(width, height) :
              (c[1] % 2 = 0 /\ c[2] % 2 = 0) => maze[c[2]][c[1]] = 1

C19_CarveStep ==
    (ValidDims /\ pc = "loop" /\ maze' # maze) =>
        LET changed == {c \in Cells(width, height) :
                           maze'[c[2]][c[1]] # maze[c[2]][c[1]]}
        IN  /\ stack' = Append(stack, Top(stack'))
            /\ changed = {Top(stack'), Midway(Top(stack), Top(stack'))}
            /\ Cardinality(changed) = 2
            /\ \A c \in changed : maze[c[2]][c[1]] = 1 /\ maze'[c[2]][c[1]] = 0

(* C19: for odd width and height of at least 3, in every state of the      *)
(* loop every stacked cell is Empty with both coordinates odd, consecutive *)
(* stacked cells are 2 apart on one axis with the cell midway Empty, no    *)
(* cell with both coordinates even is Empty; and every step that changes   *)
(* the grid pushes one cell and changes exactly that cell and the one      *)
(* midway to it from Wall to Empty.                                        *)
C19_GenerationInvariants ==
    /\ [](C19_StackAndGrid)
    /\ [][C19_CarveStep]_vars

(* Three cells deep in a 5 x 5 grid: (1, 1), (3, 1), (3, 3) stacked. *)
C19_Witness ==
    /\ width = 5 /\ height = 5 /\ pc = "loop"
    /\ stack = <<<<1, 1>>, <<3, 1>>, <<3, 3>>>>
    /\ maze[1][2] = 0 /\ maze[2][3] = 0 /\ maze[3][1] = 1

(***************************************************************************)
(* Properties of the ray cast in the grids main makes                      *)
(***************************************************************************)
(* C20: in the frame loop, the grid being one generate_maze returned and   *)
(* the colour pass coloured and the camera being in an Empty cell, every   *)
(* cell a ray is in is inside the grid (no read at an index outside it, no *)
(* IndexError, the out-of-bounds exit not taken), and the cell a ray ends  *)
(* on is a Wall, its value one of 1..4.                                    *)
C20_RayEndsOnWall ==
    (pc \in FrameLoop \cup {"exit", "error"}) =>
        /\ pc # "error"
        /\ maze[RInt(posY)][RInt(posX)] = 0
        /\ (pc \in {"dda", "drawn"}) =>
              /\ InGrid(ray.mapX, ray.mapY)
              /\ ray.hit <=> maze[ray.mapY][ray.mapX] # 0
              /\ ray.hit => maze[ray.mapY][ray.mapX] \in WallChoices
              /\ pc = "drawn" => ray.hit

(* From cell (1, 1) of a 5 x 5 grid along an open row: the ray crosses     *)
(* columns 2 and 3 and ends on the border Wall in column 4.                *)
C20_Witness ==
    /\ pc = "drawn" /\ width = 5 /\ height = 5
    /\ RInt(posX) = 1 /\ RInt(posY) = 1
    /\ ray.hit /\ ray.mapX = 4 /\ ray.mapY = 1 /\ ray.side = 0
    /\ maze[1][4] # 0

====
